---- MODULE Spec2Model ----
(***************************************************************************)
(* Model of lesson_12.py: a command-line contact manager.                  *)
(*                                                                         *)
(* Text is modelled as a sequence of one-character strings, so that        *)
(* str.lower, str.startswith, str.split, the phone regular expression and  *)
(* the date formatting/parsing are computed character by character as the  *)
(* Python code computes them.                                              *)
(*                                                                         *)
(* Four specifications share the variables:                                *)
(*   Spec          the REPL loop main() over the module-level AddressBook  *)
(*   SpecRecord    one Record and its add_phone/remove_phone/edit_phone    *)
(*   SpecBook      AddressBook.add_record and AddressBook.iterator         *)
(*   SpecBirthday  one Birthday, its value setter and days_to_birthday     *)
(***************************************************************************)
EXTENDS Integers, Sequences, FiniteSets, TLC

VARIABLES
    my_contacts,   \* the AddressBook: sequence of [key, record], in dict order
    prev_contacts, \* history: my_contacts as it was before the last loop iteration
    running,       \* TRUE while main()'s while-loop has not hit break
    text,          \* the input line read by the last loop iteration
    command,       \* the command the last line was dispatched to ("None" if none)
    output,        \* what the last loop iteration printed
    record,        \* SpecRecord: the Record under test
    ret,           \* SpecRecord: outcome of the last Record method call
    op,            \* SpecRecord/SpecBook/SpecBirthday: the last call and its arguments
    batches,       \* SpecBook: list(iterator(N)) of the last iterator call
    today,         \* SpecBirthday: datetime.now().date()
    birthday,      \* SpecBirthday: Birthday._value, <<>> (None) or <<year, month, day>>
    days           \* SpecBirthday: outcome of the last Birthday call

vars == <<my_contacts, prev_contacts, running, text, command, output, record, ret, op,
          batches, today, birthday, days>>

cmdVars == <<my_contacts, prev_contacts, running, text, command, output>>

(***************************************************************************)
(* Characters and strings                                                  *)
(***************************************************************************)
DigitChars == <<"0","1","2","3","4","5","6","7","8","9">>

IsDigit(c) == \E i \in 1..10 : DigitChars[i] = c
IsSpace(c) == c \in {" ", "\t", "\n"}

\* the lower-case letter of every upper-case letter
UpperToLower ==
    ("A" :> "a") @@ ("B" :> "b") @@ ("C" :> "c") @@ ("D" :> "d") @@ ("E" :> "e")
    @@ ("F" :> "f") @@ ("G" :> "g") @@ ("H" :> "h") @@ ("I" :> "i") @@ ("J" :> "j")
    @@ ("K" :> "k") @@ ("L" :> "l") @@ ("M" :> "m") @@ ("N" :> "n") @@ ("O" :> "o")
    @@ ("P" :> "p") @@ ("Q" :> "q") @@ ("R" :> "r") @@ ("S" :> "s") @@ ("T" :> "t")
    @@ ("U" :> "u") @@ ("V" :> "v") @@ ("W" :> "w") @@ ("X" :> "x") @@ ("Y" :> "y")
    @@ ("Z" :> "z")

\* str.lower() on one character
LowerChar(c) == IF c \in DOMAIN UpperToLower THEN UpperToLower[c] ELSE c

\* str.lower()
lower(s) == [i \in 1..Len(s) |-> LowerChar(s[i])]

\* str.startswith(prefix)
startswith(s, prefix) ==
    /\ Len(prefix) <= Len(s)
    /\ \A i \in 1..Len(prefix) : s[i] = prefix[i]

\* str.split() with no separator: runs of whitespace separate the tokens,
\* leading and trailing whitespace yields no empty token.
RECURSIVE SplitFrom(_, _, _, _)
SplitFrom(s, i, cur, acc) ==
    IF i > Len(s)
    THEN IF cur = <<>> THEN acc ELSE Append(acc, cur)
    ELSE IF IsSpace(s[i])
         THEN SplitFrom(s, i + 1, <<>>, IF cur = <<>> THEN acc ELSE Append(acc, cur))
         ELSE SplitFrom(s, i + 1, Append(cur, s[i]), acc)

split(s) == SplitFrom(s, 1, <<>>, <<>>)

\* sep.join(parts)
RECURSIVE join(_, _)
join(sep, parts) ==
    IF parts = <<>> THEN <<>>
    ELSE IF Len(parts) = 1 THEN parts[1]
    ELSE parts[1] \o sep \o join(sep, Tail(parts))

(***************************************************************************)
(* Phone: re.match(r"^\+?\d{9,15}$", value)                                *)
(***************************************************************************)
MinDigits == 9
MaxDigits == 15

\* In Python "$" also matches just before a newline that ends the string.
PhoneMatch(value) ==
    LET n     == Len(value)
        last  == IF n > 0 /\ value[n] = "\n" THEN n - 1 ELSE n
        first == IF n > 0 /\ value[1] = "+" THEN 2 ELSE 1
        exact(e) == /\ e - first + 1 >= MinDigits
                    /\ e - first + 1 <= MaxDigits
                    /\ \A i \in first..e : IsDigit(value[i])
    IN  exact(n) \/ exact(last)

(***************************************************************************)
(* Calendar dates: datetime(year, month, day).date()                       *)
(***************************************************************************)
IsLeap(y) == (y % 4 = 0 /\ y % 100 # 0) \/ y % 400 = 0

DaysInMonth(y, m) ==
    IF m = 2 THEN (IF IsLeap(y) THEN 29 ELSE 28)
    ELSE IF m \in {4, 6, 9, 11} THEN 30 ELSE 31

\* datetime(y, m, d) raises ValueError unless this holds
ValidDate(y, m, d) ==
    /\ y \in 1..9999
    /\ m \in 1..12
    /\ d >= 1
    /\ d <= DaysInMonth(y, m)

RECURSIVE DaysBeforeMonth(_, _)
DaysBeforeMonth(y, m) ==
    IF m <= 1 THEN 0 ELSE DaysBeforeMonth(y, m - 1) + DaysInMonth(y, m - 1)

\* date.toordinal(): 1 for 0001-01-01
toordinal(date) ==
    LET y == date[1] - 1
    IN  y * 365 + (y \div 4) - (y \div 100) + (y \div 400)
        + DaysBeforeMonth(date[1], date[2]) + date[3]

\* date < date
DateLess(a, b) ==
    \/ a[1] < b[1]
    \/ a[1] = b[1] /\ a[2] < b[2]
    \/ a[1] = b[1] /\ a[2] = b[2] /\ a[3] < b[3]

\* datetime(y, m, d).date(): the date, or a raised ValueError
datetime(y, m, d) ==
    IF ValidDate(y, m, d)
    THEN [raised |-> "", date |-> <<y, m, d>>]
    ELSE [raised |-> "ValueError", date |-> <<>>]

\* zero-padded decimal rendering, as strftime's %d, %m and %Y produce
Digit(n) == DigitChars[(n % 10) + 1]
Pad2(n) == <<Digit(n \div 10), Digit(n)>>
Pad4(n) == <<Digit(n \div 1000), Digit(n \div 100)>> \o Pad2(n)

\* date.strftime('%d.%m.%Y')
strftime(date) == Pad2(date[3]) \o <<".">> \o Pad2(date[2]) \o <<".">> \o Pad4(date[1])

DigitVal(c) == (CHOOSE i \in 1..10 : DigitChars[i] = c) - 1

\* re.match(r"\d{2}\.\d{2}\.\d{4}", s): anchored at the start only
BirthdayMatch(s) ==
    /\ Len(s) >= 10
    /\ \A i \in {1, 2, 4, 5, 7, 8, 9, 10} : IsDigit(s[i])
    /\ s[3] = "."
    /\ s[6] = "."

\* datetime.strptime(s, '%d.%m.%Y') for a string that passed BirthdayMatch:
\* the whole string has to be consumed and name a real calendar date.
strptime(s) ==
    IF Len(s) # 10
    THEN [raised |-> "ValueError", date |-> <<>>]
    ELSE datetime(DigitVal(s[7]) * 1000 + DigitVal(s[8]) * 100
                      + DigitVal(s[9]) * 10 + DigitVal(s[10]),
                  DigitVal(s[4]) * 10 + DigitVal(s[5]),
                  DigitVal(s[1]) * 10 + DigitVal(s[2]))

(***************************************************************************)
(* Birthday                                                                *)
(***************************************************************************)
\* Birthday.value setter: the new _value, or ValueError with _value kept.
\* date > datetime.now() compares midnight of the date with the current
\* time, so it holds exactly when the date is after today's date.
Birthday_value(old, new_value, now) ==
    IF ~BirthdayMatch(new_value)
    THEN [raised |-> "ValueError", value |-> old]
    ELSE LET parsed == strptime(new_value)
         IN  IF parsed.raised # ""
             THEN [raised |-> "ValueError", value |-> old]
             ELSE IF DateLess(now, parsed.date)
                  THEN [raised |-> "ValueError", value |-> old]
                  ELSE [raised |-> "", value |-> parsed.date]

\* Birthday.__init__(value): _value is None unless a non-empty value is given
Birthday_init(value, now) ==
    IF value = <<>> THEN [raised |-> "", value |-> <<>>]
    ELSE Birthday_value(<<>>, value, now)

\* Birthday.days_to_birthday(): ret is <<>> for None, <<n>> for the integer n
days_to_birthday(value, now) ==
    IF value = <<>>
    THEN [raised |-> "", ret |-> <<>>]
    ELSE LET this_year == datetime(now[1], value[2], value[3])
         IN  IF this_year.raised # ""
             THEN [raised |-> this_year.raised, ret |-> <<>>]
             ELSE IF DateLess(this_year.date, now)
                  THEN LET next_year == datetime(now[1] + 1, value[2], value[3])
                       IN  IF next_year.raised # ""
                           THEN [raised |-> next_year.raised, ret |-> <<>>]
                           ELSE [raised |-> "",
                                 ret |-> <<toordinal(next_year.date) - toordinal(now)>>]
                  ELSE [raised |-> "",
                        ret |-> <<toordinal(this_year.date) - toordinal(now)>>]

S_Birthday == <<"B","i","r","t","h","d","a","y",":"," ">>
S_Name == <<"N","a","m","e",":"," ">>
S_Phone == <<"P","h","o","n","e",":"," ">>
S_Comma == <<",", " ">>

\* Birthday.__str__
Birthday_str(value) == S_Birthday \o strftime(value)

(***************************************************************************)
(* Record: [name, phones, birthday]; phones holds each Phone's _value      *)
(***************************************************************************)
\* Name.__init__: "if not value: raise ValueError"
Name_init(value) ==
    IF value = <<>>
    THEN [raised |-> "ValueError", value |-> <<>>]
    ELSE [raised |-> "", value |-> value]

\* Phone.value setter: assigns _value first, validates afterwards, so a
\* raised ValueError leaves the new value in the object.
Phone_value(value) ==
    [raised |-> IF PhoneMatch(value) THEN "" ELSE "ValueError", value |-> value]

\* Record.__init__(name) with phone and birthday left at None
Record_init(name) ==
    LET n == Name_init(name)
    IN  IF n.raised # ""
        THEN [raised |-> n.raised, record |-> <<>>]
        ELSE [raised |-> "",
              record |-> [name |-> n.value, phones |-> <<>>, birthday |-> <<>>]]

\* Record.add_phone: Phone(phone) runs the setter; a Phone whose constructor
\* raised is never appended.
add_phone(rec, phone) ==
    LET phone_obj == Phone_value(phone)
    IN  IF phone_obj.raised # ""
        THEN [raised |-> phone_obj.raised, ret |-> "None", record |-> rec]
        ELSE [raised |-> "", ret |-> "None",
              record |-> [rec EXCEPT !.phones = Append(@, phone_obj.value)]]

\* index of the first element of phones whose value equals v, 0 if none:
\* "for p in self.phones: if p.value == v"
RECURSIVE FirstIndex(_, _, _)
FirstIndex(phones, v, i) ==
    IF i > Len(phones) THEN 0
    ELSE IF phones[i] = v THEN i
    ELSE FirstIndex(phones, v, i + 1)

\* list.remove(p) for the object p found at index i. Phone defines no
\* __eq__, so list.remove compares by identity; every Phone object is created
\* by add_phone and appended once, so the object is the one at index i.
ListRemoveLast(phones, i) ==
    LET v == phones[i]
        k == CHOOSE j \in 1..Len(phones) :
                 phones[j] = v /\ \A m \in (j + 1)..Len(phones) : phones[m] # v
    IN  SubSeq(phones, 1, k - 1) \o SubSeq(phones, k + 1, Len(phones))

ListRemove(phones, i) ==
    SubSeq(phones, 1, i - 1) \o SubSeq(phones, i + 1, Len(phones))

\* Record.remove_phone
remove_phone(rec, phone) ==
    LET i == FirstIndex(rec.phones, phone, 1)
    IN  IF i = 0
        THEN [raised |-> "", ret |-> "False", record |-> rec]
        ELSE [raised |-> "", ret |-> "True",
              record |-> [rec EXCEPT !.phones = ListRemove(@, i)]]

\* Record.edit_phone: "p.value = new_phone" goes through the Phone setter
edit_phone_appends(rec, old_phone, new_phone) ==
    LET i == FirstIndex(rec.phones, old_phone, 1)
    IN  IF i = 0
        THEN [raised |-> "", ret |-> "False", record |-> rec]
        ELSE LET set == Phone_value(new_phone)
             IN  [raised |-> set.raised,
                  ret |-> IF set.raised = "" THEN "True" ELSE "None",
                  record |-> [rec EXCEPT !.phones = Append(@, set.value)]]

edit_phone(rec, old_phone, new_phone) ==
    LET i == FirstIndex(rec.phones, old_phone, 1)
    IN  IF i = 0
        THEN [raised |-> "", ret |-> "False", record |-> rec]
        ELSE LET set == Phone_value(new_phone)
             IN  [raised |-> set.raised,
                  ret |-> IF set.raised = "" THEN "True" ELSE "None",
                  record |-> [rec EXCEPT !.phones[i] = set.value]]

\* Record.__str__
Record_str(rec) ==
    LET phones == join(S_Comma, [i \in 1..Len(rec.phones) |-> S_Phone \o rec.phones[i]])
        birthday_str == IF rec.birthday # <<>>
                        THEN S_Comma \o Birthday_str(rec.birthday)
                        ELSE <<>>
    IN  S_Name \o rec.name \o S_Comma \o phones \o birthday_str

(***************************************************************************)
(* AddressBook(UserDict): data is a dict, modelled as the sequence of its  *)
(* items [key, record] in insertion order.                                 *)
(***************************************************************************)
RECURSIVE DictIndex(_, _, _)
DictIndex(data, key, i) ==
    IF i > Len(data) THEN 0
    ELSE IF data[i].key = key THEN i
    ELSE DictIndex(data, key, i + 1)

\* key in data
DictHas(data, key) == DictIndex(data, key, 1) # 0

\* data[key]
DictGet(data, key) == data[DictIndex(data, key, 1)].record

\* data[key] = rec: an existing key keeps its position, a new key goes last
DictSet(data, key, rec) ==
    LET i == DictIndex(data, key, 1)
    IN  IF i = 0
        THEN Append(data, [key |-> key, record |-> rec])
        ELSE [data EXCEPT ![i] = [key |-> key, record |-> rec]]

\* AddressBook.add_record
add_record(data, rec) == DictSet(data, rec.name, rec)

\* list(self.data.values())
values(data) == [i \in 1..Len(data) |-> data[i].record]

\* list(range(start, stop, step)) for step >= 1
RECURSIVE range(_, _, _)
range(start, stop, step) ==
    IF start >= stop THEN <<>>
    ELSE <<start>> \o range(start + step, stop, step)

Min(a, b) == IF a <= b THEN a ELSE b

\* lst[i:j] for 0 <= i <= j, zero-based, j clamped to len(lst)
SliceShort(lst, i, j) == SubSeq(lst, i + 1, Min(j - 1, Len(lst)))

Slice(lst, i, j) == SubSeq(lst, i + 1, Min(j, Len(lst)))

\* list(AddressBook.iterator(N)): every batch the generator yields, in order
iterator(data, N) ==
    LET records == values(data)
        starts  == range(0, Len(records), N)
    IN  [b \in 1..Len(starts) |->
            LET part == Slice(records, starts[b], starts[b] + N)
            IN  [k \in 1..Len(part) |-> Record_str(part[k])]]

(***************************************************************************)
(* Command layer                                                           *)
(***************************************************************************)
\* A printed string is [msg, args]: msg is the literal text or f-string
\* template, args the values interpolated into it.
Msg(m, a) == [msg |-> m, args |-> a]

M_KeyError   == "Contact with that name not found."
M_ValueError == "Please enter a valid command."
M_IndexError == "Please enter both name and phone number, separated by a space."
M_Unknown    == "Unknown command, try again."
M_Hello      == "How can I help you?"
M_Added      == "Contact {name} with phone {phone} has been added."
M_Changed    == "Phone number for contact {name} changed."
M_NotFound   == "Contact with name {name} not found."
M_PhoneIs    == "Phone number for contact {name} is {my_contacts[name]}."
M_NotDefined == "Contact with name {name} is not defined."
M_ShowAll    == "{record}\\n..."
M_NoContacts == "You have no contacts."
M_Goodbye    == "Goodbye!"

\* Outcome of a handler body: what it raised ("" if it returned), what it
\* returned, and the AddressBook it leaves behind.
Raise(exc, contacts) == [raised |-> exc, ret |-> Msg("", <<>>), contacts |-> contacts]
Return(m, contacts) == [raised |-> "", ret |-> m, contacts |-> contacts]

\* input_error: the wrapper turns three exception classes into messages
input_error(outcome) ==
    IF outcome.raised = "KeyError" THEN Return(Msg(M_KeyError, <<>>), outcome.contacts)
    ELSE IF outcome.raised = "ValueError" THEN Return(Msg(M_ValueError, <<>>), outcome.contacts)
    ELSE IF outcome.raised = "IndexError" THEN Return(Msg(M_IndexError, <<>>), outcome.contacts)
    ELSE outcome

hello(data, contacts) == input_error(Return(Msg(M_Hello, <<>>), contacts))

\* "_, name, phone = args[0].split()" raises ValueError unless there are
\* exactly three tokens.
add_merging(data, contacts) ==
    LET tokens == split(data)
    IN  input_error(
        IF Len(tokens) # 3 THEN Raise("ValueError", contacts)
        ELSE LET name == tokens[2]
                 phone == tokens[3]
                 rec == IF DictHas(contacts, name)
                        THEN [raised |-> "", record |-> DictGet(contacts, name)]
                        ELSE Record_init(name)
             IN  IF rec.raised # "" THEN Raise(rec.raised, contacts)
                 ELSE LET added == add_phone(rec.record, phone)
                      IN  IF added.raised # "" THEN Raise(added.raised, contacts)
                          ELSE Return(Msg(M_Added, <<name, phone>>),
                                      DictSet(contacts, name, added.record)))

add(data, contacts) ==
    LET tokens == split(data)
    IN  input_error(
        IF Len(tokens) # 3 THEN Raise("ValueError", contacts)
        ELSE LET name == tokens[2]
                 phone == tokens[3]
                 rec == Record_init(name)
             IN  IF rec.raised # "" THEN Raise(rec.raised, contacts)
                 ELSE LET added == add_phone(rec.record, phone)
                      IN  IF added.raised # "" THEN Raise(added.raised, contacts)
                          ELSE Return(Msg(M_Added, <<name, phone>>),
                                      DictSet(contacts, name, added.record)))

\* change: the record is edited in place, so whatever edit_phone did to it
\* before raising stays in the AddressBook.
change_creating(data, contacts) ==
    LET tokens == split(data)
    IN  input_error(
        IF Len(tokens) # 3 THEN Raise("ValueError", contacts)
        ELSE LET name == tokens[2]
                 phone == tokens[3]
             IN  IF DictHas(contacts, name)
                 THEN LET rec == DictGet(contacts, name)
                      IN  IF Len(rec.phones) = 0 THEN Raise("IndexError", contacts)
                          ELSE LET edited == edit_phone(rec, rec.phones[1], phone)
                                   after == DictSet(contacts, name, edited.record)
                               IN  IF edited.raised # "" THEN Raise(edited.raised, after)
                                   ELSE Return(Msg(M_Changed, <<name>>), after)
                 ELSE Return(Msg(M_NotFound, <<name>>),
                             DictSet(contacts, name,
                                     [name |-> name, phones |-> <<phone>>,
                                      birthday |-> <<>>])))

change(data, contacts) ==
    LET tokens == split(data)
    IN  input_error(
        IF Len(tokens) # 3 THEN Raise("ValueError", contacts)
        ELSE LET name == tokens[2]
                 phone == tokens[3]
             IN  IF DictHas(contacts, name)
                 THEN LET rec == DictGet(contacts, name)
                      IN  IF Len(rec.phones) = 0 THEN Raise("IndexError", contacts)
                          ELSE LET edited == edit_phone(rec, rec.phones[1], phone)
                                   after == DictSet(contacts, name, edited.record)
                               IN  IF edited.raised # "" THEN Raise(edited.raised, after)
                                   ELSE Return(Msg(M_Changed, <<name>>), after)
                 ELSE Return(Msg(M_NotFound, <<name>>), contacts))

\* "_, name = args[0].split()" raises ValueError unless there are two tokens
phone(data, contacts) ==
    LET tokens == split(data)
    IN  input_error(
        IF Len(tokens) # 2 THEN Raise("ValueError", contacts)
        ELSE LET name == tokens[2]
             IN  IF DictHas(contacts, name)
                 THEN Return(Msg(M_PhoneIs, <<name, Record_str(DictGet(contacts, name))>>),
                             contacts)
                 ELSE Return(Msg(M_NotDefined, <<name>>), contacts))

show_all(data, contacts) ==
    input_error(
        IF Len(contacts) # 0
        THEN Return(Msg(M_ShowAll,
                        [i \in 1..Len(contacts) |-> Record_str(contacts[i].record)]),
                    contacts)
        ELSE Return(Msg(M_NoContacts, <<>>), contacts))

exit(data, contacts) == input_error(Return(Msg(M_Goodbye, <<>>), contacts))

K_hello    == <<"h","e","l","l","o">>
K_add      == <<"a","d","d">>
K_change   == <<"c","h","a","n","g","e">>
K_phone    == <<"p","h","o","n","e">>
K_show_all == <<"s","h","o","w"," ","a","l","l">>
K_exit     == <<"e","x","i","t">>

\* the COMMANDS dict in its declared (iteration) order
COMMANDS == <<[command |-> "hello",    keywords |-> K_hello],
              [command |-> "add",      keywords |-> K_add],
              [command |-> "change",   keywords |-> K_change],
              [command |-> "phone",    keywords |-> K_phone],
              [command |-> "show_all", keywords |-> K_show_all],
              [command |-> "exit",     keywords |-> K_exit]>>

\* command_handler: the first command whose keyword the lowered text starts
\* with, together with the text; (None, '') if there is none.
RECURSIVE FirstCommand(_, _)
FirstCommand(t, i) ==
    IF i > Len(COMMANDS) THEN [command |-> "None", data |-> <<>>]
    ELSE IF startswith(lower(t), COMMANDS[i].keywords)
         THEN [command |-> COMMANDS[i].command, data |-> t]
         ELSE FirstCommand(t, i + 1)

command_handler(t) == FirstCommand(t, 1)

\* command(data)
Call(c, data, contacts) ==
    CASE c = "hello"    -> hello(data, contacts)
      [] c = "add"      -> add(data, contacts)
      [] c = "change"   -> change(data, contacts)
      [] c = "phone"    -> phone(data, contacts)
      [] c = "show_all" -> show_all(data, contacts)
      [] c = "exit"     -> exit(data, contacts)

\* "if command == exit: break"
BreaksOnAnyCommand(c) == TRUE

Breaks(c) == c = "exit"

(***************************************************************************)
(* Inputs                                                                  *)
(***************************************************************************)
T_j   == <<"j">>
T_all == <<"a","l","l">>
P1    == <<"1","2","3","4","5","6","7","8","9">>
P2    == <<"+","9","8","7","6","5","4","3","2","1","0","1","2","3","4","5">>
P3    == <<"5","5","5","0","0","0","1","1","1","2">>
Bad8  == <<"1","2","3","4","5","6","7","8">>
BadX  == <<"1","2","3","4","5","6","7","8","9","x">>

Words == { <<"h","e","l","l","o">>, <<"a","d","d">>, <<"A","D","D">>,
           <<"c","h","a","n","g","e">>, <<"p","h","o","n","e">>,
           <<"s","h","o","w">>, <<"e","x","i","t">>, <<"E","x","i","t">>,
           <<"f","o","o">> }
NameTokens  == { T_j, T_all }
PhoneTokens == { P1, P2, Bad8 }

TokenLists ==
    { <<w>> : w \in Words }
    \cup { <<w, n>> : w \in Words, n \in NameTokens }
    \cup { <<w, n, p>> : w \in Words, n \in NameTokens, p \in PhoneTokens }
    \cup { <<w, n, p, T_j>> : w \in Words, n \in NameTokens, p \in {P1} }

\* the lines main() reads: the empty line and the token lists joined by blanks
Lines == { <<>> } \cup { join(<<" ">>, toks) : toks \in TokenLists }

\* the values handed to the Record methods
PhoneInputs == { P1, P3, BadX }

\* the most phones add_phone puts into the Record under test
MaxPhones == 3

\* the names in the AddressBook under test and the largest batch size
MaxNames == 5
MaxN == 3

BookName(i) == <<"n", Digit(i)>>

\* the records handed to add_record: one per name, with 0, 1 or 2 phones and
\* with or without a birthday, and a second record under the first name
BookRecord(i, v) ==
    [name |-> BookName(i),
     phones |-> IF (i + v) % 3 = 0 THEN <<>>
                ELSE IF (i + v) % 3 = 1 THEN <<P1>> ELSE <<P1, P2>>,
     birthday |-> IF i % 2 = 0 THEN <<1990, 6, 15>> ELSE <<>>]

RecordPool == { BookRecord(i, 0) : i \in 1..MaxNames } \cup { BookRecord(1, 1) }

\* the years datetime.now() ranges over
FirstYear == 2023
LastYear == 2024

Dates == { d \in (FirstYear..LastYear) \X (1..12) \X (1..31) : ValidDate(d[1], d[2], d[3]) }

\* the strings handed to Birthday: well-formed past dates (29 February
\* among them), impossible dates, a future date and malformed text
BirthdayInputs ==
    { strftime(<<2000, 1, 5>>), strftime(<<2000, 2, 1>>), strftime(<<2000, 2, 29>>),
      strftime(<<1999, 12, 31>>), strftime(<<2023, 6, 15>>),
      strftime(<<2001, 2, 29>>), strftime(<<2000, 4, 31>>), strftime(<<2000, 13, 1>>),
      strftime(<<2030, 1, 1>>),
      <<"1",".","1",".","2","0","0","0">>,
      strftime(<<1990, 6, 15>>) \o <<"0">>,
      <<>> }

(***************************************************************************)
(* Spec: the loop of main() over my_contacts                               *)
(***************************************************************************)
NoOp == [name |-> "", args |-> <<>>]
NoRet == [raised |-> "", ret |-> "None"]
NoDays == [raised |-> "", ret |-> <<>>]
NoRecord == [name |-> T_j, phones |-> <<>>, birthday |-> <<>>]

Idle ==
    /\ record = NoRecord
    /\ ret = NoRet
    /\ op = NoOp
    /\ batches = <<>>
    /\ today = <<FirstYear, 1, 1>>
    /\ birthday = <<>>
    /\ days = NoDays

Init ==
    /\ my_contacts = <<>>
    /\ prev_contacts = <<>>
    /\ running = TRUE
    /\ text = <<>>
    /\ command = ""
    /\ output = Msg("", <<>>)
    /\ Idle

\* the lines that command_handler dispatches to command c
LinesFor(c) == { l \in Lines : command_handler(l).command = c }

\* One iteration of "while True": read user_input, look the command up,
\* print the unknown-command message or the handler's result, break on exit.
main(user_input) ==
    /\ running
    /\ LET found == command_handler(user_input)
       IN  /\ text' = user_input
           /\ command' = found.command
           /\ prev_contacts' = my_contacts
           /\ IF found.command = "None"
              THEN /\ output' = Msg(M_Unknown, <<>>)
                   /\ my_contacts' = my_contacts
                   /\ running' = TRUE
              ELSE LET result == Call(found.command, found.data, my_contacts)
                   IN  /\ output' = result.ret
                       /\ my_contacts' = result.contacts
                       /\ running' = ~Breaks(found.command)
    /\ UNCHANGED <<record, ret, op, batches, today, birthday, days>>

MainHello   == \E l \in LinesFor("hello") : main(l)
MainAdd     == \E l \in LinesFor("add") : main(l)
MainChange  == \E l \in LinesFor("change") : main(l)
MainPhone   == \E l \in LinesFor("phone") : main(l)
MainShowAll == \E l \in LinesFor("show_all") : main(l)
MainExit    == \E l \in LinesFor("exit") : main(l)
MainUnknown == \E l \in LinesFor("None") : main(l)

Next ==
    \/ MainHello
    \/ MainAdd
    \/ MainChange
    \/ MainPhone
    \/ MainShowAll
    \/ MainExit
    \/ MainUnknown

Spec == Init /\ [][Next]_vars

(***************************************************************************)
(* SpecRecord: calls of the Record methods on one Record                   *)
(***************************************************************************)
CmdIdle ==
    /\ my_contacts = <<>>
    /\ prev_contacts = <<>>
    /\ running = TRUE
    /\ text = <<>>
    /\ command = ""
    /\ output = Msg("", <<>>)

InitRecord ==
    /\ CmdIdle
    /\ record = Record_init(T_j).record
    /\ ret = NoRet
    /\ op = NoOp
    /\ batches = <<>>
    /\ today = <<FirstYear, 1, 1>>
    /\ birthday = <<>>
    /\ days = NoDays

RecordCall(name, args, outcome) ==
    /\ op' = [name |-> name, args |-> <<record.phones>> \o args]
    /\ record' = outcome.record
    /\ ret' = [raised |-> outcome.raised, ret |-> outcome.ret]
    /\ UNCHANGED <<cmdVars, batches, today, birthday, days>>

RecordAddPhone ==
    \E p \in PhoneInputs :
        /\ Len(record.phones) < MaxPhones
        /\ RecordCall("add_phone", <<p>>, add_phone(record, p))

RecordRemovePhone ==
    \E p \in PhoneInputs :
        RecordCall("remove_phone", <<p>>, remove_phone(record, p))

RecordEditPhone ==
    \E old \in PhoneInputs, new \in PhoneInputs :
        RecordCall("edit_phone", <<old, new>>, edit_phone(record, old, new))

NextRecord ==
    \/ RecordAddPhone
    \/ RecordRemovePhone
    \/ RecordEditPhone

SpecRecord == InitRecord /\ [][NextRecord]_vars

(***************************************************************************)
(* SpecBook: AddressBook.add_record and AddressBook.iterator               *)
(***************************************************************************)
InitBook == CmdIdle /\ Idle

BookAddRecord ==
    \E r \in RecordPool :
        /\ my_contacts' = add_record(my_contacts, r)
        /\ op' = [name |-> "add_record", args |-> <<>>]
        /\ UNCHANGED <<prev_contacts, running, text, command, output,
                       record, ret, batches, today, birthday, days>>

BookIterator ==
    \E N \in 1..MaxN :
        /\ batches' = iterator(my_contacts, N)
        /\ op' = [name |-> "iterator", args |-> <<N>>]
        /\ UNCHANGED <<cmdVars, record, ret, today, birthday, days>>

NextBook ==
    \/ BookAddRecord
    \/ BookIterator

SpecBook == InitBook /\ [][NextBook]_vars

(***************************************************************************)
(* SpecBirthday: one Birthday object while the clock advances              *)
(***************************************************************************)
InitBirthday ==
    /\ CmdIdle
    /\ record = NoRecord
    /\ ret = NoRet
    /\ op = NoOp
    /\ batches = <<>>
    /\ today \in Dates
    /\ birthday = <<>>
    /\ days = NoDays

NextDate(d) ==
    IF d[3] < DaysInMonth(d[1], d[2]) THEN <<d[1], d[2], d[3] + 1>>
    ELSE IF d[2] < 12 THEN <<d[1], d[2] + 1, 1>>
    ELSE <<d[1] + 1, 1, 1>>

\* midnight passes; the outcome of the call made before it has been consumed
BirthdayTick ==
    /\ NextDate(today) \in Dates
    /\ today' = NextDate(today)
    /\ days' = NoDays
    /\ op' = NoOp
    /\ UNCHANGED <<cmdVars, record, ret, batches, birthday>>

\* Birthday(value): a constructor that raises leaves no new object behind
BirthdayInit ==
    \E v \in BirthdayInputs :
        LET made == Birthday_init(v, today)
        IN  /\ birthday' = IF made.raised = "" THEN made.value ELSE birthday
            /\ days' = [raised |-> made.raised, ret |-> <<>>]
            /\ op' = [name |-> "Birthday", args |-> <<>>]
            /\ UNCHANGED <<cmdVars, record, ret, batches, today>>

\* birthday.value = v
BirthdaySet ==
    \E v \in BirthdayInputs \ {<<>>} :
        LET set == Birthday_value(birthday, v, today)
        IN  /\ birthday' = set.value
            /\ days' = [raised |-> set.raised, ret |-> <<>>]
            /\ op' = [name |-> "value", args |-> <<>>]
            /\ UNCHANGED <<cmdVars, record, ret, batches, today>>

BirthdayDays ==
    /\ days' = days_to_birthday(birthday, today)
    /\ op' = [name |-> "days_to_birthday", args |-> <<>>]
    /\ UNCHANGED <<cmdVars, record, ret, batches, today, birthday>>

NextBirthday ==
    \/ BirthdayTick
    \/ BirthdayInit
    \/ BirthdaySet
    \/ BirthdayDays

SpecBirthday == InitBirthday /\ [][NextBirthday]_vars

(***************************************************************************)
(* Properties                                                              *)
(***************************************************************************)
\* the tokens of the line the last loop iteration read
Tokens == split(text)

\* the messages input_error substitutes for an exception
FailureMessages == { M_KeyError, M_ValueError, M_IndexError }

\* every entry of book a under a key other than key is in book b, unchanged
OthersKept(a, b, key) ==
    \A i \in 1..Len(a) :
        a[i].key # key =>
            \E j \in 1..Len(b) : b[j] = a[i]

\* C1: every command is all-or-nothing: when the handler answers with one of
\* the failure messages, the AddressBook is what it was before the command.
C1_AllOrNothing ==
    output.msg \in FailureMessages => my_contacts = prev_contacts

\* C2: every Phone held in the Record's phone list matches the phone pattern,
\* whatever add_phone, remove_phone and edit_phone calls came before.
C2_PhonesValid ==
    \A i \in 1..Len(record.phones) : PhoneMatch(record.phones[i])

\* C3: after "add n p" with a valid phone p the entry for n has the phone
\* list [p] and nothing else, whatever was stored under n before, and the
\* entries under all other names are the ones that were there before.
C3_AddOverwrites ==
    (command = "add" /\ Len(Tokens) = 3 /\ PhoneMatch(Tokens[3])) =>
        LET n == Tokens[2]
            p == Tokens[3]
        IN  /\ \E i \in 1..Len(my_contacts) :
                  /\ my_contacts[i].key = n
                  /\ my_contacts[i].record.phones = <<p>>
            /\ Cardinality({ i \in 1..Len(my_contacts) : my_contacts[i].key = n }) = 1
            /\ OthersKept(prev_contacts, my_contacts, n)
            /\ OthersKept(my_contacts, prev_contacts, n)

\* C3 witness: n was stored with another phone, next to a second contact,
\* when "add n p" was processed.
C3_Witness ==
    /\ command = "add"
    /\ Len(Tokens) = 3
    /\ PhoneMatch(Tokens[3])
    /\ Len(prev_contacts) = 2
    /\ \E i \in 1..2 :
          /\ prev_contacts[i].key = Tokens[2]
          /\ prev_contacts[i].record.phones # <<Tokens[3]>>

\* C4: "change <name> <phone>" with a name that is no key of the AddressBook
\* answers with the not-found message and leaves the AddressBook as it was.
C4_ChangeAbsent ==
    (/\ command = "change"
     /\ Len(Tokens) = 3
     /\ \A i \in 1..Len(prev_contacts) : prev_contacts[i].key # Tokens[2]) =>
        /\ output = Msg(M_NotFound, <<Tokens[2]>>)
        /\ my_contacts = prev_contacts

\* C4 witness: change of an absent name with a malformed phone while another
\* contact is stored.
C4_Witness ==
    /\ command = "change"
    /\ Len(Tokens) = 3
    /\ ~PhoneMatch(Tokens[3])
    /\ Len(prev_contacts) = 1
    /\ prev_contacts[1].key # Tokens[2]
    /\ output.msg = M_NotFound

\* C5: the loop has terminated exactly when the line just processed starts,
\* lower-cased, with "exit"; after any other line (unknown command and error
\* answers included) it is awaiting input again.
C5_TerminatesOnlyOnExit ==
    IF command = ""
    THEN running
    ELSE /\ ~running <=> startswith(lower(text), K_exit)
         /\ output.msg \in FailureMessages \cup {M_Unknown} => running

\* C5 witness: the loop has stopped after a line spelled "Exit ..."
C5_Witness ==
    /\ ~running
    /\ Len(text) > 4
    /\ text[1] = "E"
    /\ output.msg = M_Goodbye

\* C6: add or change given fewer than three tokens answers with the
\* "enter both name and phone number" message.
C6_TooFewTokens ==
    (command \in {"add", "change"} /\ Len(Tokens) < 3) =>
        output.msg = M_IndexError

RECURSIVE Flatten(_)
Flatten(seqs) == IF seqs = <<>> THEN <<>> ELSE Head(seqs) \o Flatten(Tail(seqs))

\* C7: iterator(n) over k records yields ceil(k/n) batches, all of n elements
\* except the last, which has 1..n; concatenated they are the rendered
\* records in stored order, each once; an empty book yields no batch.
C7_IteratorBatches ==
    op.name = "iterator" =>
        LET n == op.args[1]
            k == Len(my_contacts)
            c == Len(batches)
        IN  /\ c * n >= k
            /\ (c - 1) * n < k
            /\ \A b \in 1..(c - 1) : Len(batches[b]) = n
            /\ c > 0 => Len(batches[c]) \in 1..n
            /\ Flatten(batches) = [i \in 1..k |-> Record_str(my_contacts[i].record)]
            /\ k = 0 => batches = <<>>

\* C7 witness: iterator(2) over five records gave batches of 2, 2 and 1
C7_Witness ==
    /\ op.name = "iterator"
    /\ op.args[1] = 2
    /\ Len(my_contacts) = 5
    /\ Len(batches) = 3
    /\ Len(batches[3]) = 1

\* C8: remove_phone(v) removes the first entry equal to v and only that one,
\* keeps the others in order and returns True; with no entry equal to v it
\* returns False, raises nothing and leaves the list as it was.
C8_RemovePhone ==
    op.name = "remove_phone" =>
        LET before == op.args[1]
            v == op.args[2]
            after == record.phones
        IN  IF \E i \in 1..Len(before) : before[i] = v
            THEN /\ ret = [raised |-> "", ret |-> "True"]
                 /\ Len(after) = Len(before) - 1
                 /\ \E i \in 1..Len(before) :
                       /\ before[i] = v
                       /\ \A j \in 1..(i - 1) : before[j] # v
                       /\ \A j \in 1..Len(after) :
                             after[j] = IF j < i THEN before[j] ELSE before[j + 1]
            ELSE /\ ret = [raised |-> "", ret |-> "False"]
                 /\ after = before

\* C8 witness: v was held twice with another phone in between
C8_Witness ==
    /\ op.name = "remove_phone"
    /\ Len(op.args[1]) = 3
    /\ op.args[1][1] = op.args[2]
    /\ op.args[1][3] = op.args[2]
    /\ op.args[1][2] # op.args[2]
    /\ record.phones = <<op.args[1][2], op.args[2]>>

\* the first date on or after now that has the month and day of value
NextOccurrence(value, now) ==
    LET years == { y \in now[1]..(now[1] + 8) :
                      /\ ValidDate(y, value[2], value[3])
                      /\ ~DateLess(<<y, value[2], value[3]>>, now) }
        first == CHOOSE y \in years : \A z \in years : y <= z
    IN  <<first, value[2], value[3]>>

\* C9: for every set Birthday, 29 February included, days_to_birthday returns
\* the number of days from today to the next occurrence of its month and day
\* on or after today.
C9_DaysToNext ==
    (op.name = "days_to_birthday" /\ birthday # <<>>) =>
        /\ days.raised = ""
        /\ days.ret = <<toordinal(NextOccurrence(birthday, today)) - toordinal(today)>>

\* C10: every entry is stored under its record's name, every stored record
\* has exactly one phone, and change never ran into an empty phone list.
C10_KeyedOnePhone ==
    /\ \A i \in 1..Len(my_contacts) :
          /\ my_contacts[i].key = my_contacts[i].record.name
          /\ Len(my_contacts[i].record.phones) = 1
    /\ output.msg # M_IndexError

\* C10 witness: two contacts are stored and the phone of one was just changed
C10_Witness ==
    /\ command = "change"
    /\ output.msg = M_Changed
    /\ Len(my_contacts) = 2
    /\ my_contacts # prev_contacts

====
